---- MODULE Spec2Model ----
(***************************************************************************)
(* ftl2-htop: the metrics store, the rolling history and the two loops     *)
(* (event ingestion, redraw) of src/ftl2_htop.py (rich front end, debug    *)
(* mode) and src/ftl2_htop_tui.py (Textual front end).                     *)
(***************************************************************************)
EXTENDS Integers, Sequences, FiniteSets, TLC

----------------------------------------------------------------------------
(* Bounds of the model.                                                    *)

\* Capacity of every history deque.  src/ftl2_htop.py:53 sets 30; every use
\* is deque(maxlen=HISTORY_LEN), so the code is parametric in it and the
\* model runs it at a small capacity that the event budget can overflow.
HISTORY_LEN == 2

\* Number of SystemMetrics events the automation service delivers in a run
\* of main() (rich, debug), where a handler runs whole between two ticks.
MaxEvents == 4

\* The same for a run of the tui, where the statements of the handler
\* interleave with those of the redraw.
MaxTuiEvents == 2

----------------------------------------------------------------------------
(* Python values: dicts with optional keys, strings, deques.               *)

\* {} : the dict with no key.
EmptyDict == [k \in {} |-> 0]

\* d.get(k, default)
Get(d, k, default) == IF k \in DOMAIN d THEN d[k] ELSE default

\* The code points of the strings used as host and group names (TLC has no
\* order on strings; Python compares str by code point, left to right).
CodePoints ==
  [db   |-> <<100, 98>>,
   db1  |-> <<100, 98, 49>>,
   web  |-> <<119, 101, 98>>,
   web1 |-> <<119, 101, 98, 49>>]

RECURSIVE SeqLess(_, _)
SeqLess(s, t) ==
  IF t = <<>> THEN FALSE
  ELSE IF s = <<>> THEN TRUE
  ELSE IF Head(s) # Head(t) THEN Head(s) < Head(t)
  ELSE SeqLess(Tail(s), Tail(t))

\* a < b on str
StrLess(a, b) == SeqLess(CodePoints[a], CodePoints[b])

RECURSIVE SortedInsert(_, _)
SortedInsert(k, s) ==
  IF s = <<>> THEN <<k>>
  ELSE IF StrLess(k, Head(s)) THEN <<k>> \o s
  ELSE <<Head(s)>> \o SortedInsert(k, Tail(s))

\* sorted(keys): ascending, stable
RECURSIVE sorted(_)
sorted(s) ==
  IF s = <<>> THEN <<>>
  ELSE SortedInsert(s[Len(s)], sorted(SubSeq(s, 1, Len(s) - 1)))

\* A Python dict keeps its keys in insertion order: a sequence of items
\* [k |-> key, v |-> value], one per key.
DictKeys(d) == [i \in 1..Len(d) |-> d[i].k]

DictHas(d, k) == \E i \in 1..Len(d) : d[i].k = k

\* d[k], for a key of d
DictGet(d, k) == d[CHOOSE i \in 1..Len(d) : d[i].k = k].v

\* d[k] = v : a new key goes last, a present key keeps its place.
DictSet(d, k, v) ==
  IF DictHas(d, k)
  THEN [i \in 1..Len(d) |-> IF d[i].k = k THEN [k |-> k, v |-> v] ELSE d[i]]
  ELSE Append(d, [k |-> k, v |-> v])

\* Mutant of deque_append: a deque without maxlen.
deque_append_unbounded(d, v, maxlen) == Append(d, v)

\* Mutant of deque_append: a full deque refuses the new item.
deque_append_keep_old(d, v, maxlen) ==
  IF Len(d) >= maxlen THEN d ELSE Append(d, v)

\* deque(maxlen=n).append(v): a full deque drops its leftmost item.
deque_append(d, v, maxlen) ==
  IF maxlen = 0 THEN d
  ELSE IF Len(d) >= maxlen THEN Tail(d) \o <<v>>
  ELSE Append(d, v)

----------------------------------------------------------------------------
(* The SystemMetrics payloads the hosts send (spec 3, HostMetricSnapshot). *)
(* Every section is optional.  uptime grows with the sampling instant, so  *)
(* of two payloads of one host the one with the smaller uptime is older.   *)

SnapA ==
  [hostname |-> "web1",
   cpu |-> [percent_total |-> 90, count |-> 4],
   memory |-> [percent |-> 70, used |-> 7, total |-> 10],
   swap |-> [percent |-> 10, used |-> 1, total |-> 10],
   disk |-> [percent |-> 85, used |-> 17, total |-> 20],
   net |-> [bytes_sent_rate |-> 5, bytes_recv_rate |-> 9],
   uptime |-> 3661,
   processes |-> <<[pid |-> 1, name |-> "init"]>>]

\* An older sample of web1 with fewer sections.
SnapB ==
  [hostname |-> "web1",
   cpu |-> [percent_total |-> 10, count |-> 4],
   memory |-> [percent |-> 20, used |-> 2, total |-> 10],
   net |-> [bytes_sent_rate |-> 3, bytes_recv_rate |-> 0],
   uptime |-> 65]

\* db1: no memory section, a net section without bytes_sent_rate.
SnapC ==
  [hostname |-> "db1",
   cpu |-> [percent_total |-> 55],
   disk |-> [percent |-> 61, used |-> 61, total |-> 100],
   net |-> [bytes_recv_rate |-> 7],
   uptime |-> 90061]

\* No hostname (the handler falls back to its group), no cpu, no net.
SnapD ==
  [memory |-> [percent |-> 61, used |-> 61, total |-> 100],
   uptime |-> 86400]

\* The groups of the inventory and the events each group's hosts send.
InventoryGroups == <<"web", "db">>

GroupEvents ==
  [web |-> {SnapA, SnapB, SnapD},
   db  |-> {SnapC}]

Metrics == {"cpu", "mem", "net_send", "net_recv"}

----------------------------------------------------------------------------
(* History tracker (src/ftl2_htop.py, _record_history).                    *)

\* The four empty deques of a host seen for the first time.
NewHistory ==
  [cpu |-> <<>>, mem |-> <<>>, net_send |-> <<>>, net_recv |-> <<>>]

\* if hostname not in history_store: history_store[hostname] = {...}
history_create(hs, hostname) ==
  IF hostname \in DOMAIN hs THEN hs ELSE hs @@ (hostname :> NewHistory)

\* The sample _record_history takes from payload m for one metric.
MetricSample(metric, m) ==
  CASE metric = "cpu" -> Get(Get(m, "cpu", EmptyDict), "percent_total", 0)
    [] metric = "mem" -> Get(Get(m, "memory", EmptyDict), "percent", 0)
    [] metric = "net_send" ->
         Get(Get(m, "net", EmptyDict), "bytes_sent_rate", 0)
    [] metric = "net_recv" ->
         Get(Get(m, "net", EmptyDict), "bytes_recv_rate", 0)

\* Mutant of history_append: a metric whose section the payload lacks is
\* skipped.
history_append_if_present(hs, hostname, metric, m) ==
  LET sec == IF metric = "cpu" THEN "cpu"
             ELSE IF metric = "mem" THEN "memory" ELSE "net"
  IN IF sec \in DOMAIN m
     THEN [hs EXCEPT ![hostname][metric] =
             deque_append(@, MetricSample(metric, m), HISTORY_LEN)]
     ELSE hs

\* h[metric].append(...)
history_append(hs, hostname, metric, m) ==
  [hs EXCEPT ![hostname][metric] =
     deque_append(@, MetricSample(metric, m), HISTORY_LEN)]

\* Mutant of _record_history: the two network samples are not recorded.
RecordHistoryNoNet(hs, hostname, m) ==
  history_append(
    history_append(history_create(hs, hostname), hostname, "cpu", m),
    hostname, "mem", m)

\* _record_history(hostname, m), as a function of the history store.
_record_history(hs, hostname, m) ==
  history_append(
    history_append(
      history_append(
        history_append(history_create(hs, hostname), hostname, "cpu", m),
        hostname, "mem", m),
      hostname, "net_send", m),
    hostname, "net_recv", m)

----------------------------------------------------------------------------
(* The event handler _on_metrics(m, g=group).                              *)

\* host = m.get("hostname", g)
ResolveHost(m, g) == Get(m, "hostname", g)

\* Mutant of StorePut: metrics_store.setdefault(host, {}).update(m), which
\* keeps the keys of the previous payload that m does not have.
StorePutMerge(ms, host, m) ==
  LET old == IF DictHas(ms, host) THEN DictGet(ms, host) ELSE EmptyDict IN
  DictSet(ms, host,
          [k \in DOMAIN old \cup DOMAIN m |->
             IF k \in DOMAIN m THEN m[k] ELSE old[k]])

\* Mutant of StorePut: a fresh store that holds the reporting host alone.
StorePutAlone(ms, host, m) == <<[k |-> host, v |-> m]>>

\* metrics_store[host] = m
StorePut(ms, host, m) == DictSet(ms, host, m)

----------------------------------------------------------------------------
(* Panel renderer and dashboard composer.  A panel is the record of what   *)
(* the host's panel shows: its title, the value each section displays and  *)
(* the glyph indices of its three sparklines.                              *)

SeqMax(s) == CHOOSE x \in {s[i] : i \in 1..Len(s)} :
               \A j \in 1..Len(s) : s[j] <= x

Min2(a, b) == IF a <= b THEN a ELSE b

\* _sparkline(values, max_val=...): max_val is <<>> for None, <<n>> for n.
\* int(v / hi * 7) is the floor of 7v/hi for the non-negative samples here.
_sparkline(values, max_val) ==
  IF values = <<>> THEN <<>>
  ELSE LET hi0 == IF max_val # <<>> THEN max_val[1] ELSE SeqMax(values)
           hi  == IF hi0 = 0 THEN 1 ELSE hi0
       IN  [i \in 1..Len(values) |-> Min2((values[i] * 7) \div hi, 7)]

\* A memory, swap or disk section as _mem_bar is given it.
UsageOf(section) ==
  [percent |-> Get(section, "percent", 0),
   used    |-> Get(section, "used", 0),
   total   |-> Get(section, "total", 0)]

\* cpu_line of render_host: the total and its trend.
CpuLine(m, spark) ==
  [cpu_total |-> Get(Get(m, "cpu", EmptyDict), "percent_total", 0),
   spark     |-> spark]

\* mem_line of render_host: the memory bar and its trend.
MemLine(m, spark) ==
  [mem   |-> UsageOf(Get(m, "memory", EmptyDict)),
   spark |-> spark]

\* swap_line, disk_line, net_line with the net_recv trend, up_line and the
\* process table (at most 15 rows, in the order of the payload).
RestLines(m, spark) ==
  LET procs == Get(m, "processes", <<>>) IN
  [swap     |-> UsageOf(Get(m, "swap", EmptyDict)),
   disk     |-> UsageOf(Get(m, "disk", EmptyDict)),
   net_sent |-> Get(Get(m, "net", EmptyDict), "bytes_sent_rate", 0),
   net_recv |-> Get(Get(m, "net", EmptyDict), "bytes_recv_rate", 0),
   spark    |-> spark,
   uptime   |-> Get(m, "uptime", 0),
   procs    |-> SubSeq(procs, 1, Min2(15, Len(procs)))]

\* Panel(Group(*content), title=hostname)
Panel(hostname, cpu_line, mem_line, rest) ==
  [title |-> hostname, cpu |-> cpu_line, mem |-> mem_line, rest |-> rest]

\* h = history_store.get(hostname, {})
HistoryOf(hs, hostname) == Get(hs, hostname, EmptyDict)

\* render_host(hostname, m)
render_host(hostname, m, hs) ==
  LET h == HistoryOf(hs, hostname) IN
  Panel(hostname,
        CpuLine(m, _sparkline(Get(h, "cpu", <<>>), <<100>>)),
        MemLine(m, _sparkline(Get(h, "mem", <<>>), <<100>>)),
        RestLines(m, _sparkline(Get(h, "net_recv", <<>>), <<>>)))

\* Mutant of Waiting: an empty store composes to an empty frame.
WaitingNone == <<>>

\* Group(Text("Waiting for metrics..."))
Waiting == <<[placeholder |-> "Waiting for metrics..."]>>

\* Mutant of PanelOrder: the hosts in the insertion order of the dict.
PanelOrderInsertion(ms) == DictKeys(ms)

\* The order in which render_dashboard visits the hosts.
PanelOrder(ms) == sorted(DictKeys(ms))

\* render_dashboard()
render_dashboard(ms, hs) ==
  IF ms = <<>> THEN Waiting
  ELSE LET keys == PanelOrder(ms) IN
       [i \in 1..Len(keys) |-> render_host(keys[i], DictGet(ms, keys[i]), hs)]

----------------------------------------------------------------------------
(* Python floats.  A positive double is [m, e]: m its 53 significand bits, *)
(* most significant first, e the exponent of the last bit, the value being *)
(* m * 2^e; 0.0 is FloatZero.  Division and multiplication give the exact  *)
(* result rounded to 53 bits, ties to even, as IEEE 754 does.  Long        *)
(* numbers are handled 16 bits at a time.                                  *)

Precision == 53
Chunk == 16
Radix == 2^Chunk

FloatZero == [m |-> <<>>, e |-> 0]

Zeros(k) == [i \in 1..k |-> 0]

\* The n binary digits of a natural number v < 2^n, most significant first.
Bits(v, n) == [i \in 1..n |-> (v \div 2^(n - i)) % 2]

\* The number that at most 30 binary digits spell.
RECURSIVE BitsValue(_)
BitsValue(b) ==
  IF b = <<>> THEN 0
  ELSE (2 * BitsValue(SubSeq(b, 1, Len(b) - 1))) + b[Len(b)]

StripZeros(b) ==
  IF \E i \in 1..Len(b) : b[i] = 1
  THEN LET first == CHOOSE i \in 1..Len(b) :
                      b[i] = 1 /\ \A j \in 1..(i - 1) : b[j] = 0
       IN SubSeq(b, first, Len(b))
  ELSE <<>>

\* b + 1
Inc(b) ==
  IF \E i \in 1..Len(b) : b[i] = 0
  THEN LET k == CHOOSE i \in 1..Len(b) :
                  b[i] = 0 /\ \A j \in (i + 1)..Len(b) : b[j] = 1
       IN [i \in 1..Len(b) |-> IF i < k THEN b[i] ELSE IF i = k THEN 1 ELSE 0]
  ELSE <<1>> \o Zeros(Len(b))

\* The digits to the base Radix of the binary digits b (Len(b) a multiple of
\* Chunk), and back.
Digits(b) ==
  [j \in 1..(Len(b) \div Chunk) |->
     BitsValue(SubSeq(b, (j - 1) * Chunk + 1, j * Chunk))]

FromDigits(ds) ==
  [i \in 1..(Len(ds) * Chunk) |->
     Bits(ds[((i - 1) \div Chunk) + 1], Chunk)[((i - 1) % Chunk) + 1]]

\* The double nearest to b * 2^e (+ something below the last bit of b when
\* sticky), b without leading zeros: round half to even.
RoundToDouble(b, e, sticky) ==
  IF b = <<>> THEN FloatZero
  ELSE IF Len(b) <= Precision
  THEN [m |-> b \o Zeros(Precision - Len(b)), e |-> e - (Precision - Len(b))]
  ELSE LET keep  == SubSeq(b, 1, Precision)
           guard == b[Precision + 1]
           rest  == sticky \/ \E i \in (Precision + 2)..Len(b) : b[i] = 1
           up    == guard = 1 /\ (rest \/ keep[Precision] = 1)
           r     == IF up THEN Inc(keep) ELSE keep
           e2    == e + (Len(b) - Precision)
       IN IF Len(r) > Precision
          THEN [m |-> SubSeq(r, 1, Precision), e |-> e2 + 1]
          ELSE [m |-> r, e |-> e2]

\* float(n) for a natural number n < 2^30
FromInt(n) == RoundToDouble(StripZeros(Bits(n, 30)), 0, FALSE)

\* Long division of the digits ds by d < 2^14: quotient digits and remainder.
RECURSIVE LongDiv(_, _, _, _, _)
LongDiv(ds, d, j, r, q) ==
  IF j > Len(ds) THEN [q |-> q, r |-> r]
  ELSE LET t == (r * Radix) + ds[j]
       IN LongDiv(ds, d, j + 1, t % d, Append(q, t \div d))

\* x / d for a double x >= 0 and a natural number d in 1..2^14 - 1: the
\* significand is extended to 128 bits before the division.
FloatDiv(x, d) ==
  IF x.m = <<>> THEN FloatZero
  ELSE LET ext == 8 * Chunk - Precision
           res == LongDiv(Digits(x.m \o Zeros(ext)), d, 1, 0, <<>>)
       IN RoundToDouble(StripZeros(FromDigits(res.q)), x.e - ext, res.r # 0)

\* ds * w, digit by digit from the right, for w < 2^14.
RECURSIVE TimesDigits(_, _, _, _, _)
TimesDigits(ds, w, j, carry, out) ==
  IF j = 0 THEN <<carry>> \o out
  ELSE LET t == (ds[j] * w) + carry
       IN TimesDigits(ds, w, j - 1, t \div Radix, <<t % Radix>> \o out)

\* x * w for a double x >= 0 and a natural number w < 2^14
FloatMul(x, w) ==
  IF x.m = <<>> \/ w = 0 THEN FloatZero
  ELSE LET ds == Digits(Zeros(4 * Chunk - Precision) \o x.m)
           pr == TimesDigits(ds, w, Len(ds), 0, <<>>)
       IN RoundToDouble(StripZeros(FromDigits(pr)), x.e, FALSE)

\* int(x) for a double 0 <= x < 2^30
FloatInt(x) ==
  IF x.m = <<>> \/ Precision + x.e <= 0 THEN 0
  ELSE BitsValue(SubSeq(x.m, 1, Precision + x.e))

\* int(percent / 100 * width)
BarFilled(percent, width) ==
  FloatInt(FloatMul(FloatDiv(FromInt(percent), 100), width))

----------------------------------------------------------------------------
(* Bars and uptime.  A bar is the sequence of its cells, each the glyph    *)
(* and the style it is appended with; the numeric label that follows the   *)
(* cells is left out.                                                      *)

\* divmod(a, b) for b > 0
divmod(a, b) == <<a \div b, a % b>>

\* The text f"{n}{unit}", and texts joined by single spaces: the sequence
\* of the parts.
Part(n, unit) == [n |-> n, unit |-> unit]

\* Mutant of _fmt_uptime: the hours taken from the whole number of seconds.
FmtUptimeTotalHours(seconds) ==
  LET d       == divmod(seconds, 86400)
      h       == divmod(seconds, 3600)
      minutes == divmod(h[2], 60)[1]
  IN  IF d[1] > 0
      THEN <<Part(d[1], "d"), Part(h[1], "h"), Part(minutes, "m")>>
      ELSE IF h[1] > 0
      THEN <<Part(h[1], "h"), Part(minutes, "m")>>
      ELSE <<Part(minutes, "m")>>

\* _fmt_uptime(seconds)
_fmt_uptime(seconds) ==
  LET d       == divmod(seconds, 86400)
      h       == divmod(d[2], 3600)
      minutes == divmod(h[2], 60)[1]
  IN  IF d[1] > 0
      THEN <<Part(d[1], "d"), Part(h[1], "h"), Part(minutes, "m")>>
      ELSE IF h[1] > 0
      THEN <<Part(h[1], "h"), Part(minutes, "m")>>
      ELSE <<Part(minutes, "m")>>

\* ch * n with one style: the empty text when n <= 0.
Cells(ch, style, n) == [i \in 1..n |-> [ch |-> ch, style |-> style]]

\* Mutant of _cpu_bar: the thresholds taken inclusively.
CpuBarInclusive(percent, width) ==
  LET filled == BarFilled(percent, width)
      empty  == width - filled
      color  == IF percent >= 80 THEN "red"
                ELSE IF percent >= 50 THEN "yellow"
                ELSE "green"
  IN  Cells("full", color, filled) \o Cells("light", "dim", empty)

\* _cpu_bar(percent, width)
_cpu_bar(percent, width) ==
  LET filled == BarFilled(percent, width)
      empty  == width - filled
      color  == IF percent > 80 THEN "red"
                ELSE IF percent > 50 THEN "yellow"
                ELSE "green"
  IN  Cells("full", color, filled) \o Cells("light", "dim", empty)

\* _mem_bar(percent, used, total, width): used and total go to the label.
_mem_bar(percent, used, total, width) ==
  LET filled == BarFilled(percent, width)
      empty  == width - filled
      color  == IF percent > 80 THEN "red"
                ELSE IF percent > 60 THEN "yellow"
                ELSE "cyan"
  IN  Cells("full", color, filled) \o Cells("light", "dim", empty)

----------------------------------------------------------------------------
(* State.                                                                  *)

VARIABLES
  frontend,       \* "rich" (main with Live), "debug" (main --debug), "tui"
  arg_groups,     \* args.groups (<<>> when not given)
  inventory,      \* ftl.hosts.groups
  budget,         \* events the automation service delivers in this run
  pc,             \* position of main() / of _async_runner() in its thread
  groups,         \* the local list groups
  gi,             \* index of the for loop over groups (1-based)
  monitored,      \* groups whose proxy.monitor(...) was requested
  handlers,       \* group -> [g |-> default argument g of its handler]
  metrics_store,  \* insertion-ordered dict hostname -> payload
  history_store,  \* hostname -> [cpu, mem, net_send, net_recv] deques
  log,            \* the events handled so far, in order: [g, m]
  dropped,        \* an event was dispatched to a group with no handler
  listen_st,      \* ftl.listen(): idle, listening, failed, returned, cancelled
  upd_st,         \* update_display() task: idle, running, cancelled
  intr,           \* SIGINT: "none", or where main() was when it arrived
  surface,        \* display surface (Live / the Textual screen): none, up, down
  late_push,      \* a tick handed a frame to the surface after its teardown
  console,        \* what was printed to the terminal, in order
  exit,           \* <<>> while the process runs, <<code>> once it has ended
  cur,            \* tui: the handler running in the worker thread, or <<>>
  rd,             \* tui: the _refresh_dashboard call running on the main thread
  status_bar,     \* tui: content of #status-bar
  finished,       \* tui: self._finished
  call            \* a formatting function called on its own: <<>> or <<[fn, ..., out]>>

vars ==
  <<frontend, arg_groups, inventory, budget, pc, groups, gi, monitored,
    handlers, metrics_store, history_store, log, dropped, listen_st, upd_st,
    intr, surface, late_push, console, exit, cur, rd, status_bar, finished,
    call>>

config == <<frontend, arg_groups, inventory, budget, call>>
stores == <<metrics_store, history_store, log>>
tuiv   == <<cur, rd, status_bar, finished>>

\* The command lines and inventories of the model: no group anywhere; all
\* groups of the inventory; one requested group; a requested group that the
\* inventory does not have, after a valid one.
Setups ==
  {[args |-> <<>>,               inv |-> <<>>],
   [args |-> <<>>,               inv |-> InventoryGroups],
   [args |-> <<"db">>,           inv |-> InventoryGroups],
   [args |-> <<"web", "bogus">>, inv |-> InventoryGroups]}

\* No call of render_dashboard() is running.  dirty records, for the
\* properties, that a statement of the handler ran since the call began.
RdIdle ==
  [pc |-> "idle", keys |-> <<>>, i |-> 0, m |-> EmptyDict, has_h |-> FALSE,
   iter |-> "none", lines |-> <<>>, panels |-> <<>>, dirty |-> FALSE]

\* rd after a statement of the handler ran in the worker thread.
Touched(r) == IF r.pc = "idle" THEN r ELSE [r EXCEPT !.dirty = TRUE]

InitWith(b, bt) ==
  /\ frontend \in {"rich", "debug", "tui"}
  /\ \E s \in Setups : arg_groups = s.args /\ inventory = s.inv
  /\ budget = IF frontend = "tui" THEN bt ELSE b
  /\ pc = "init"
  /\ groups = <<>>
  /\ gi = 0
  /\ monitored = {}
  /\ handlers = EmptyDict
  /\ metrics_store = <<>>
  /\ history_store = EmptyDict
  /\ log = <<>>
  /\ dropped = FALSE
  /\ listen_st = "idle"
  /\ upd_st = "idle"
  /\ intr = "none"
  /\ surface = "none"
  /\ late_push = FALSE
  /\ console = <<>>
  /\ exit = <<>>
  /\ cur = <<>>
  /\ rd = RdIdle
  /\ status_bar = "none"
  /\ finished = FALSE
  /\ call = <<>>

Init == InitWith(MaxEvents, MaxTuiEvents)

Running == exit = <<>>
SeqToSet(s) == {s[i] : i \in 1..Len(s)}

----------------------------------------------------------------------------
(* Startup: main() lines 320-370, _async_runner() lines 105-129.           *)

\* async with automation(...) as ftl
EnterAutomation ==
  /\ Running /\ frontend # "tui" /\ pc = "init"
  /\ pc' = "resolve"
  /\ UNCHANGED <<config, groups, gi, monitored, handlers, stores, dropped,
                 listen_st, upd_st, intr, surface, late_push,
                 console, exit, tuiv>>

\* HtopApp.compose and on_mount: the screen with its two Static widgets, the
\* two timers, and the worker thread, which enters automation(...).
on_mount ==
  /\ Running /\ frontend = "tui" /\ pc = "init"
  /\ pc' = "resolve"
  /\ surface' = "up"
  /\ status_bar' = "Starting..."
  /\ UNCHANGED <<config, groups, gi, monitored, handlers, stores, dropped,
                 listen_st, upd_st, intr, late_push, console, exit, cur, rd,
                 finished>>

\* groups = args.groups or list(ftl.hosts.groups)
ResolvedGroups == IF arg_groups # <<>> THEN arg_groups ELSE inventory

\* available = set(ftl.hosts.groups) | set(ftl.hosts.keys()); the hosts of
\* the model's inventory are not requested as groups.
Available == SeqToSet(inventory)

\* main() lines 322-335: no group, or a requested group that is not in the
\* inventory, prints one message and returns; otherwise the loop starts.
ResolveGroups ==
  /\ Running /\ frontend # "tui" /\ pc = "resolve"
  /\ IF ResolvedGroups = <<>>
     THEN /\ console' = Append(console, "No groups found in inventory")
          /\ pc' = "done" /\ exit' = <<0>>
          /\ UNCHANGED <<groups, gi>>
     ELSE IF \E i \in 1..Len(ResolvedGroups) : ResolvedGroups[i] \notin Available
     THEN /\ console' = Append(console, "Error: not found in inventory")
          /\ pc' = "done" /\ exit' = <<0>>
          /\ UNCHANGED <<groups, gi>>
     ELSE /\ groups' = ResolvedGroups /\ gi' = 1 /\ pc' = "monitor"
          /\ UNCHANGED <<console, exit>>
  /\ UNCHANGED <<config, monitored, handlers, stores, dropped, listen_st,
                 upd_st, intr, surface, late_push, tuiv>>

\* _async_runner() lines 106-115: no group sets the status bar through
\* call_from_thread and returns; requested groups are not validated.
TuiResolveGroups ==
  /\ Running /\ frontend = "tui" /\ pc = "resolve" /\ rd.pc = "idle"
  /\ IF ResolvedGroups = <<>>
     THEN /\ status_bar' = "No groups found in inventory"
          /\ pc' = "closing"
          /\ UNCHANGED <<groups, gi>>
     ELSE /\ groups' = ResolvedGroups /\ gi' = 1 /\ pc' = "monitor"
          /\ UNCHANGED status_bar
  /\ UNCHANGED <<config, monitored, handlers, stores, dropped, listen_st,
                 upd_st, intr, surface, late_push, console, exit,
                 cur, rd, finished>>

\* proxy = ftl[group]; await proxy.monitor(...): the request is sent and the
\* coroutine waits for the answer.  ftl[group] of a group the inventory does
\* not have raises (only the tui gets here with one).
StartMonitor ==
  /\ Running /\ pc = "monitor"
  /\ IF groups[gi] \in Available
     THEN /\ monitored' = monitored \cup {groups[gi]}
          /\ pc' = "monitoring"
          /\ console' = IF frontend = "tui" THEN console
                        ELSE Append(console, "Starting monitor")
     ELSE /\ pc' = "raised"
          /\ UNCHANGED <<monitored, console>>
  /\ UNCHANGED <<config, groups, gi, handlers, stores, dropped, listen_st,
                 upd_st, intr, surface, late_push, exit, tuiv>>

\* Mutant of BoundGroup: def _on_metrics(m) reading the loop variable group
\* when it is called, after the loop has ended.
BoundGroupLate(grps, i) == grps[Len(grps)]

\* The group the handler defined in iteration i of the loop falls back to:
\* def _on_metrics(m, g=group) binds g when the def statement runs.
BoundGroup(grps, i) == grps[i]

\* Mutant of Subscribe: proxy.on(...) placed after the loop, so that only the
\* last proxy gets a handler.
SubscribeAfterLoop ==
  /\ Running /\ pc = "monitoring" /\ intr = "none"
  /\ handlers' = IF gi = Len(groups)
                 THEN [x \in DOMAIN handlers \cup {groups[gi]} |->
                         IF x = groups[gi] THEN [g |-> groups[gi]]
                         ELSE handlers[x]]
                 ELSE handlers
  /\ gi' = gi + 1
  /\ pc' = IF gi = Len(groups) THEN "ready" ELSE "monitor"
  /\ UNCHANGED <<config, groups, monitored, stores, dropped, listen_st,
                 upd_st, intr, surface, late_push, console, exit,
                 tuiv>>

\* proxy.on("SystemMetrics", handler) for the group just monitored, then the
\* next iteration, or the end of the loop.
Subscribe ==
  /\ Running /\ pc = "monitoring" /\ intr = "none"
  /\ handlers' = [x \in DOMAIN handlers \cup {groups[gi]} |->
                    IF x = groups[gi] THEN [g |-> BoundGroup(groups, gi)]
                    ELSE handlers[x]]
  /\ gi' = gi + 1
  /\ pc' = IF gi = Len(groups) THEN "ready" ELSE "monitor"
  /\ UNCHANGED <<config, groups, monitored, stores, dropped, listen_st,
                 upd_st, intr, surface, late_push, console, exit,
                 tuiv>>

\* After the loop.  rich: with Live(render_dashboard(), ...) and
\* asyncio.gather(ftl.listen(), update_display()); debug and tui:
\* await ftl.listen().
EnterLoops ==
  /\ Running /\ pc = "ready"
  /\ listen_st' = "listening"
  /\ IF frontend = "rich"
     THEN /\ surface' = "up"
          /\ upd_st' = "running"
          /\ pc' = "gather"
          /\ UNCHANGED console
     ELSE /\ pc' = "listen"
          /\ console' = IF frontend = "debug"
                        THEN Append(console, "Debug mode: listening")
                        ELSE console
          /\ UNCHANGED <<surface, upd_st>>
  /\ UNCHANGED <<config, groups, gi, monitored, handlers, stores, dropped,
                 intr, late_push, exit, tuiv>>

----------------------------------------------------------------------------
(* Ingestion: ftl.listen() dispatches each event of a monitored group to   *)
(* the handler registered for the group.                                   *)

\* rich and debug: listen and the handler run in the event loop of main();
\* _on_metrics has no await, so it runs whole between two ticks.  The debug
\* handler prints the event and calls _on_metrics(m, g).
Dispatch ==
  /\ Running /\ frontend # "tui"
  /\ listen_st = "listening" /\ intr = "none"
  /\ Len(log) < budget
  /\ \E g \in monitored : \E m \in GroupEvents[g] :
       IF g \in DOMAIN handlers
       THEN LET host == ResolveHost(m, handlers[g].g) IN
            /\ metrics_store' = StorePut(metrics_store, host, m)
            /\ history_store' = _record_history(history_store, host, m)
            /\ log' = Append(log, [g |-> g, m |-> m])
            /\ console' = IF frontend = "debug"
                          THEN Append(console, "SystemMetrics")
                          ELSE console
            /\ UNCHANGED dropped
       ELSE /\ dropped' = TRUE
            /\ UNCHANGED <<stores, console>>
  /\ UNCHANGED <<config, pc, groups, gi, monitored, handlers, listen_st,
                 upd_st, intr, surface, late_push, exit, tuiv>>

\* tui: the handler runs in the worker thread, and the main thread can run
\* between any two of its statements.  First statements: the host is
\* resolved and metrics_store[host] = m.  asleep records, for the
\* properties, that no redraw was running when the event was delivered.
TuiDispatch ==
  /\ Running /\ frontend = "tui"
  /\ listen_st = "listening" /\ cur = <<>>
  /\ Len(log) < budget
  /\ \E g \in monitored : \E m \in GroupEvents[g] :
       IF g \in DOMAIN handlers
       THEN LET host == ResolveHost(m, handlers[g].g) IN
            /\ metrics_store' = StorePut(metrics_store, host, m)
            /\ cur' = <<[g |-> g, m |-> m, host |-> host, step |-> "create",
                         asleep |-> rd.pc = "idle"]>>
            /\ log' = Append(log, [g |-> g, m |-> m])
            /\ rd' = Touched(rd)
            /\ UNCHANGED dropped
       ELSE /\ dropped' = TRUE
            /\ UNCHANGED <<metrics_store, log, cur, rd>>
  /\ UNCHANGED <<config, pc, groups, gi, monitored, handlers, history_store,
                 listen_st, upd_st, intr, surface, late_push,
                 console, exit, status_bar, finished>>

\* tui, _record_history: the test and creation of the host's deques.
TuiRecordCreate ==
  /\ Running /\ frontend = "tui"
  /\ cur # <<>> /\ cur[1].step = "create"
  /\ history_store' = history_create(history_store, cur[1].host)
  /\ cur' = <<[cur[1] EXCEPT !.step = "cpu"]>>
  /\ rd' = Touched(rd)
  /\ UNCHANGED <<config, pc, groups, gi, monitored, handlers, metrics_store,
                 log, dropped, listen_st, upd_st, intr, surface, late_push,
                 console, exit, status_bar, finished>>

NextMetric(metric) ==
  CASE metric = "cpu" -> "mem"
    [] metric = "mem" -> "net_send"
    [] metric = "net_send" -> "net_recv"
    [] metric = "net_recv" -> "end"

\* tui, _record_history: one of the four appends.  A deque that the main
\* thread is iterating at that moment (in _sparkline) is thereby mutated
\* during iteration.
TuiRecordAppend ==
  /\ Running /\ frontend = "tui"
  /\ cur # <<>> /\ cur[1].step \in Metrics
  /\ history_store' =
       history_append(history_store, cur[1].host, cur[1].step, cur[1].m)
  /\ cur' = IF NextMetric(cur[1].step) = "end" THEN <<>>
            ELSE <<[cur[1] EXCEPT !.step = NextMetric(cur[1].step)]>>
  /\ rd' = IF /\ rd.pc = cur[1].step /\ rd.iter = "live"
              /\ rd.keys[rd.i] = cur[1].host
           THEN [Touched(rd) EXCEPT !.iter = "mutated"]
           ELSE Touched(rd)
  /\ UNCHANGED <<config, pc, groups, gi, monitored, handlers, metrics_store,
                 log, dropped, listen_st, upd_st, intr, surface, late_push, console, exit, status_bar, finished>>

\* The transport fails: ftl.listen() raises.  In the tui the exception is
\* then in _thread_target; in rich it is in the listen task, and main() and
\* update_display() run on.
ListenFails ==
  /\ Running /\ listen_st = "listening" /\ intr = "none" /\ cur = <<>>
  /\ listen_st' = "failed"
  /\ pc' = IF frontend = "tui" THEN "raised" ELSE pc
  /\ UNCHANGED <<config, groups, gi, monitored, handlers, stores,
                 dropped, upd_st, intr, surface, late_push, console,
                 exit, tuiv>>

\* ftl.listen() returns (the event stream ended).  In the tui
\* _async_runner() returns with it.
ListenReturns ==
  /\ Running /\ listen_st = "listening" /\ intr = "none" /\ cur = <<>>
  /\ listen_st' = "returned"
  /\ pc' = IF frontend = "tui" THEN "closing" ELSE pc
  /\ UNCHANGED <<config, groups, gi, monitored, handlers, stores,
                 dropped, upd_st, intr, surface, late_push, console,
                 exit, tuiv>>

----------------------------------------------------------------------------
(* Redraw.  A frame handed to the display surface is an output: the model   *)
(* keeps the frame under construction, not the content of the screen.      *)

\* rich, update_display(): live.update(render_dashboard()), then sleep.  The
\* task runs until it is cancelled, also after Live was exited; a
\* cancellation requested while it renders takes effect at its next sleep.
RichTick ==
  /\ Running /\ frontend = "rich"
  /\ upd_st = "running"
  /\ late_push' = (late_push \/ surface # "up")
  /\ UNCHANGED <<config, pc, groups, gi, monitored, handlers, stores,
                 dropped, listen_st, upd_st, intr, surface, console, exit,
                 tuiv>>

\* tui, _refresh_dashboard() on its 0.5 s timer, start of render_dashboard():
\* the placeholder for an empty store, else the sorted keys.
RefreshStart ==
  /\ Running /\ frontend = "tui" /\ surface = "up" /\ rd.pc = "idle"
  /\ rd' = IF metrics_store = <<>>
           THEN [RdIdle EXCEPT !.pc = "push", !.panels = Waiting]
           ELSE [RdIdle EXCEPT !.pc = "fetch",
                               !.keys = PanelOrder(metrics_store),
                               !.i = 1]
  /\ UNCHANGED <<config, pc, groups, gi, monitored, handlers, stores,
                 dropped, listen_st, upd_st, intr, surface, late_push,
                 console, exit, cur, status_bar, finished>>

\* _sparkline(values) on a deque of h: an empty deque (or no h) gives an
\* empty trend at once, any other is iterated.
IterBegin(has_h, hostname, metric) ==
  IF has_h /\ history_store[hostname][metric] # <<>> THEN "live" ELSE "none"

\* Mutant of RefreshFetch: h = history_store.setdefault(hostname, {...}),
\* which creates the entry of a host that has none.
RefreshFetchCreates ==
  /\ Running /\ frontend = "tui" /\ rd.pc = "fetch"
  /\ LET hostname == rd.keys[rd.i] IN
     /\ history_store' = history_create(history_store, hostname)
     /\ rd' = [rd EXCEPT !.m = DictGet(metrics_store, hostname),
                         !.has_h = TRUE,
                         !.iter = IF hostname \in DOMAIN history_store
                                  THEN IterBegin(TRUE, hostname, "cpu")
                                  ELSE "none",
                         !.pc = "cpu"]
  /\ UNCHANGED <<config, pc, groups, gi, monitored, handlers, metrics_store,
                 log, dropped, listen_st, upd_st, intr, surface, late_push,
                 console, exit, cur, status_bar, finished>>

\* tui: m = metrics_store[hostname] and, in render_host,
\* h = history_store.get(hostname, {}), up to the start of the cpu trend.
\* (No write can fall between the two reads that a later or an earlier
\* single instant would not show: the host's key is in the store, and its
\* history entry is created by the handler that put its first payload.)
RefreshFetch ==
  /\ Running /\ frontend = "tui" /\ rd.pc = "fetch"
  /\ LET hostname == rd.keys[rd.i]
         has_h == hostname \in DOMAIN history_store
     IN rd' = [rd EXCEPT !.m = DictGet(metrics_store, hostname),
                         !.has_h = has_h,
                         !.iter = IterBegin(has_h, hostname, "cpu"),
                         !.pc = "cpu"]
  /\ UNCHANGED <<config, pc, groups, gi, monitored, handlers, stores,
                 dropped, listen_st, upd_st, intr, surface, late_push, console, exit, cur, status_bar, finished>>

\* Mutant of PayloadRead: every section is read from the store anew.
PayloadReadLive(m, ms, hostname) == DictGet(ms, hostname)

\* render_host reads every section from its parameter m, the dict that
\* render_dashboard fetched once from the store (ms is the store now).
PayloadRead(m, ms, hostname) == m

\* The line of render_host that ends with the trend of deque metric.
LineOf(metric, m, spark) ==
  CASE metric = "cpu" -> CpuLine(m, spark)
    [] metric = "mem" -> MemLine(m, spark)
    [] metric = "net_recv" -> RestLines(m, spark)

\* Mutant of SparkMax: every trend scaled by its own maximum (max_val=None).
SparkMaxAuto(metric) == <<>>

\* max_val of the three _sparkline calls of render_host.
SparkMax(metric) == IF metric = "net_recv" THEN <<>> ELSE <<100>>

\* tui: the end of one trend's loop over its deque, which completes a line
\* of the panel; after the third the panel is complete and joins panels.
RefreshSpark ==
  /\ Running /\ frontend = "tui"
  /\ rd.pc \in {"cpu", "mem", "net_recv"} /\ rd.iter # "mutated"
  /\ LET hostname == rd.keys[rd.i]
         spark == IF rd.iter = "live"
                  THEN _sparkline(history_store[hostname][rd.pc],
                                  SparkMax(rd.pc))
                  ELSE <<>>
         m == PayloadRead(rd.m, metrics_store, hostname)
         lines == Append(rd.lines, LineOf(rd.pc, m, spark))
         next == IF rd.pc = "cpu" THEN "mem" ELSE "net_recv"
         panels == Append(rd.panels,
                          Panel(hostname, lines[1], lines[2], lines[3]))
     IN rd' = IF rd.pc # "net_recv"
              THEN [rd EXCEPT !.lines = lines,
                              !.iter = IterBegin(rd.has_h, hostname, next),
                              !.pc = next]
              ELSE [RdIdle EXCEPT
                      !.pc = IF rd.i < Len(rd.keys) THEN "fetch" ELSE "push",
                      !.keys = rd.keys,
                      !.i = IF rd.i < Len(rd.keys) THEN rd.i + 1 ELSE rd.i,
                      !.panels = panels,
                      !.dirty = rd.dirty]
  /\ UNCHANGED <<config, pc, groups, gi, monitored, handlers, stores,
                 dropped, listen_st, upd_st, intr, surface, late_push,
                 console, exit, cur, status_bar, finished>>

\* tui: dashboard.update(render_dashboard()) hands the frame to the widget.
RefreshPush ==
  /\ Running /\ frontend = "tui" /\ rd.pc = "push"
  /\ rd' = RdIdle
  /\ UNCHANGED <<config, pc, groups, gi, monitored, handlers, stores,
                 dropped, listen_st, upd_st, intr, surface, late_push,
                 console, exit, cur, status_bar, finished>>

\* tui: the deque changed under the loop of _sparkline: RuntimeError (deque
\* mutated during iteration) leaves the timer callback and ends the app.
RefreshCrash ==
  /\ Running /\ frontend = "tui"
  /\ rd.pc \in {"cpu", "mem", "net_recv"} /\ rd.iter = "mutated"
  /\ surface' = "down"
  /\ console' = Append(console, "Traceback")
  /\ exit' = <<1>>
  /\ UNCHANGED <<config, pc, groups, gi, monitored, handlers, stores,
                 dropped, listen_st, upd_st, intr, late_push, tuiv>>

\* tui, _update_status() on its 1 s timer (host count and elapsed time are
\* not part of the model's status text).
StatusTick ==
  /\ Running /\ frontend = "tui" /\ surface = "up" /\ rd.pc = "idle"
  /\ status_bar' = IF finished THEN "host(s) | Done" ELSE "host(s)"
  /\ UNCHANGED <<config, pc, groups, gi, monitored, handlers, stores,
                 dropped, listen_st, upd_st, intr, surface, late_push, console, exit, cur, rd, finished>>

----------------------------------------------------------------------------
(* The end of ingestion and of the process.                                *)

\* rich: gather raises the exception of listen() in main(), which leaves the
\* with Live block (the screen is restored) and then the automation block;
\* update_display() is not cancelled by gather.
GatherRaises ==
  /\ Running /\ frontend = "rich" /\ pc = "gather" /\ listen_st = "failed"
  /\ surface' = "down"
  /\ pc' = "unwind"
  /\ UNCHANGED <<config, groups, gi, monitored, handlers, stores, dropped,
                 listen_st, upd_st, intr, late_push, console, exit,
                 tuiv>>

\* rich and debug: the exception leaves main(); asyncio.run cancels what is
\* left, and cli(), which catches only KeyboardInterrupt, lets it through.
MainRaises ==
  /\ Running
  /\ \/ frontend = "rich" /\ pc = "unwind"
     \/ frontend = "debug" /\ pc = "listen" /\ listen_st = "failed"
  /\ upd_st' = IF upd_st = "running" THEN "cancelled" ELSE upd_st
  /\ console' = Append(console, "Traceback")
  /\ exit' = <<1>>
  /\ pc' = "done"
  /\ UNCHANGED <<config, groups, gi, monitored, handlers, stores, dropped,
                 listen_st, intr, surface, late_push, tuiv>>

\* debug: await ftl.listen() returned; return.
DebugReturns ==
  /\ Running /\ frontend = "debug" /\ pc = "listen"
  /\ listen_st = "returned" /\ intr = "none"
  /\ exit' = <<0>>
  /\ pc' = "done"
  /\ UNCHANGED <<config, groups, gi, monitored, handlers, stores, dropped,
                 listen_st, upd_st, intr, surface, late_push,
                 console, tuiv>>

\* tui, _thread_target: loop.close(); self._finished = True.
WorkerFinished ==
  /\ Running /\ frontend = "tui" /\ pc = "closing"
  /\ finished' = TRUE
  /\ pc' = "done"
  /\ UNCHANGED <<config, groups, gi, monitored, handlers, stores, dropped,
                 listen_st, upd_st, intr, surface, late_push,
                 console, exit, cur, rd, status_bar>>

\* tui, _thread_target: except Exception: self._finished = True.
WorkerExcept ==
  /\ Running /\ frontend = "tui"
  /\ pc = "raised"
  /\ finished' = TRUE
  /\ pc' = "report"
  /\ UNCHANGED <<config, groups, gi, monitored, handlers, stores, dropped,
                 listen_st, upd_st, intr, surface, late_push,
                 console, exit, cur, rd, status_bar>>

\* tui: self.call_from_thread(self._set_status, f"Error: {e}"), run by the
\* main thread between two callbacks; the thread ends.
WorkerReport ==
  /\ Running /\ frontend = "tui" /\ pc = "report" /\ rd.pc = "idle"
  /\ status_bar' = "Error"
  /\ pc' = "done"
  /\ UNCHANGED <<config, groups, gi, monitored, handlers, stores, dropped,
                 listen_st, upd_st, intr, surface, late_push,
                 console, exit, cur, rd, finished>>

\* SIGINT while main() waits (for proxy.monitor, for listen, for gather):
\* the handler of asyncio.run cancels the main task, and a cancelled gather
\* cancels its children.
Interrupt ==
  /\ Running /\ frontend # "tui" /\ intr = "none"
  /\ pc \in {"monitoring", "listen", "gather"}
  /\ listen_st # "failed"
  /\ intr' = pc
  /\ UNCHANGED <<config, pc, groups, gi, monitored, handlers, stores,
                 dropped, listen_st, upd_st, surface, late_push,
                 console, exit, tuiv>>

\* rich: CancelledError is thrown into listen().
ListenCancelled ==
  /\ Running /\ frontend = "rich" /\ pc = "gather" /\ intr # "none"
  /\ listen_st = "listening"
  /\ listen_st' = "cancelled"
  /\ UNCHANGED <<config, pc, groups, gi, monitored, handlers, stores,
                 dropped, upd_st, intr, surface, late_push, console,
                 exit, tuiv>>

\* rich: CancelledError is thrown into update_display() at its sleep.
UpdateCancelled ==
  /\ Running /\ frontend = "rich" /\ pc = "gather" /\ intr # "none"
  /\ upd_st = "running"
  /\ upd_st' = "cancelled"
  /\ UNCHANGED <<config, pc, groups, gi, monitored, handlers, stores,
                 dropped, listen_st, intr, surface, late_push,
                 console, exit, tuiv>>

\* Mutant of MainCancelled: cli() without its except KeyboardInterrupt, so
\* that the interrupt ends the process with a traceback.
MainCancelledUncaught ==
  /\ Running /\ frontend # "tui" /\ intr # "none"
  /\ pc \in {"monitoring", "listen", "gather"}
  /\ pc = "gather" => listen_st # "listening" /\ upd_st # "running"
  /\ listen_st' = IF listen_st = "listening" THEN "cancelled" ELSE listen_st
  /\ surface' = IF surface = "up" THEN "down" ELSE surface
  /\ exit' = <<1>>
  /\ pc' = "done"
  /\ UNCHANGED <<config, groups, gi, monitored, handlers, stores, dropped,
                 upd_st, intr, late_push, console, tuiv>>

\* CancelledError reaches main() (for gather: once both children are done):
\* the with blocks are left, asyncio.run raises KeyboardInterrupt and cli()
\* swallows it.
MainCancelled ==
  /\ Running /\ frontend # "tui" /\ intr # "none"
  /\ pc \in {"monitoring", "listen", "gather"}
  /\ pc = "gather" => listen_st # "listening" /\ upd_st # "running"
  /\ listen_st' = IF listen_st = "listening" THEN "cancelled" ELSE listen_st
  /\ surface' = IF surface = "up" THEN "down" ELSE surface
  /\ exit' = <<0>>
  /\ pc' = "done"
  /\ UNCHANGED <<config, groups, gi, monitored, handlers, stores, dropped,
                 upd_st, intr, late_push, console, tuiv>>

\* tui: the q binding, action_quit_app: self.exit(); app.run() returns and
\* the daemon worker thread ends with the process.
action_quit_app ==
  /\ Running /\ frontend = "tui" /\ surface = "up" /\ rd.pc = "idle"
  /\ surface' = "down"
  /\ exit' = <<0>>
  /\ UNCHANGED <<config, pc, groups, gi, monitored, handlers, stores,
                 dropped, listen_st, upd_st, intr, late_push,
                 console, tuiv>>

----------------------------------------------------------------------------

Next ==
  \/ EnterAutomation \/ on_mount \/ ResolveGroups \/ TuiResolveGroups
  \/ StartMonitor \/ Subscribe \/ EnterLoops
  \/ Dispatch \/ TuiDispatch \/ TuiRecordCreate \/ TuiRecordAppend
  \/ ListenFails \/ ListenReturns
  \/ RichTick \/ RefreshStart \/ RefreshFetch \/ RefreshSpark \/ RefreshPush
  \/ RefreshCrash \/ StatusTick
  \/ GatherRaises \/ MainRaises \/ DebugReturns
  \/ WorkerFinished \/ WorkerExcept \/ WorkerReport
  \/ Interrupt \/ ListenCancelled \/ UpdateCancelled \/ MainCancelled
  \/ action_quit_app

Spec == Init /\ [][Next]_vars

\* The steps of main() and of the tui worker thread with its handler: a
\* coroutine or thread that can continue does continue.
MainStep ==
  \/ EnterAutomation \/ on_mount \/ ResolveGroups \/ TuiResolveGroups
  \/ StartMonitor \/ Subscribe \/ EnterLoops
  \/ GatherRaises \/ MainRaises \/ DebugReturns \/ MainCancelled
  \/ TuiRecordCreate \/ TuiRecordAppend
  \/ WorkerFinished \/ WorkerExcept

\* The cancellation of the children of gather.
ChildStep == ListenCancelled \/ UpdateCancelled

\* The redraw side: the update_display() task, the timers of the tui.
RedrawStep ==
  \/ RichTick \/ RefreshStart \/ RefreshFetch \/ RefreshSpark
  \/ RefreshPush \/ RefreshCrash

\* The event loop and the threads run whatever is ready.  No fairness for
\* what the outside does: events, the end or failure of the transport,
\* SIGINT, the q key.
Fairness ==
  /\ WF_vars(MainStep)
  /\ WF_vars(ChildStep)
  /\ WF_vars(RedrawStep)

FairSpec == Spec /\ Fairness

----------------------------------------------------------------------------
(* The formatting functions on their own: one call of one of them, with    *)
(* its arguments drawn from the ranges below, before main() has started.   *)

\* Largest percent, bar width and uptime of a call.
MaxPercent == 100
MaxWidth == 50
MaxSeconds == 90061

PureInit ==
  /\ InitWith(0, 0)
  /\ frontend = "rich" /\ arg_groups = <<>> /\ inventory = <<>>

CallCpuBar ==
  /\ pc = "init" /\ call = <<>>
  /\ \E percent \in 0..MaxPercent : \E width \in 0..MaxWidth :
       call' = <<[fn |-> "_cpu_bar", percent |-> percent, width |-> width,
                  out |-> _cpu_bar(percent, width)]>>
  /\ UNCHANGED <<frontend, arg_groups, inventory, budget, pc, groups, gi,
                 monitored, handlers, stores, dropped, listen_st, upd_st,
                 intr, surface, late_push, console, exit, tuiv>>

CallMemBar ==
  /\ pc = "init" /\ call = <<>>
  /\ \E percent \in 0..MaxPercent : \E width \in 0..MaxWidth :
       call' = <<[fn |-> "_mem_bar", percent |-> percent, width |-> width,
                  out |-> _mem_bar(percent, percent, 100, width)]>>
  /\ UNCHANGED <<frontend, arg_groups, inventory, budget, pc, groups, gi,
                 monitored, handlers, stores, dropped, listen_st, upd_st,
                 intr, surface, late_push, console, exit, tuiv>>

CallFmtUptime ==
  /\ pc = "init" /\ call = <<>>
  /\ \E seconds \in 0..MaxSeconds :
       call' = <<[fn |-> "_fmt_uptime", seconds |-> seconds,
                  out |-> _fmt_uptime(seconds)]>>
  /\ UNCHANGED <<frontend, arg_groups, inventory, budget, pc, groups, gi,
                 monitored, handlers, stores, dropped, listen_st, upd_st,
                 intr, surface, late_push, console, exit, tuiv>>

PureNext == CallCpuBar \/ CallMemBar \/ CallFmtUptime

PureSpec == PureInit /\ [][PureNext]_vars

----------------------------------------------------------------------------
(* Properties.  What the events should have produced is computed from log, *)
(* the events handled so far, independently of the handler.                *)

HostNames == {"db", "db1", "web", "web1"}

\* The host an event reports for: its hostname, else the group it came from.
EventHost(e) == IF "hostname" \in DOMAIN e.m THEN e.m.hostname ELSE e.g

\* The events handled for host h, oldest first.
EventsOf(h) == SelectSeq(log, LAMBDA e : EventHost(e) = h)

\* The sample a payload carries for a metric (0 when the field is absent).
ExpectedSample(k, m) ==
  LET sec == IF k = "cpu" THEN "cpu" ELSE IF k = "mem" THEN "memory" ELSE "net"
      fld == CASE k = "cpu" -> "percent_total"
               [] k = "mem" -> "percent"
               [] k = "net_send" -> "bytes_sent_rate"
               [] k = "net_recv" -> "bytes_recv_rate"
  IN IF sec \in DOMAIN m /\ fld \in DOMAIN m[sec] THEN m[sec][fld] ELSE 0

LastN(s, n) == IF Len(s) <= n THEN s ELSE SubSeq(s, Len(s) - n + 1, Len(s))

\* The handler running in the tui worker thread has not yet appended to
\* metric k of host h (it handles the last event of log).
AppendPending(h, k) ==
  /\ cur # <<>>
  /\ EventHost(log[Len(log)]) = h
  /\ cur[1].step \in
       CASE k = "cpu" -> {"create", "cpu"}
         [] k = "mem" -> {"create", "cpu", "mem"}
         [] k = "net_send" -> {"create", "cpu", "mem", "net_send"}
         [] k = "net_recv" -> {"create", "cpu", "mem", "net_send", "net_recv"}

\* The samples of metric k recorded for host h so far, oldest first.
Recorded(h, k) ==
  LET evs == EventsOf(h)
      n == IF AppendPending(h, k) THEN Len(evs) - 1 ELSE Len(evs)
  IN [i \in 1..n |-> ExpectedSample(k, evs[i].m)]

\* C1: in every reachable state every history buffer of every host holds at
\* most HISTORY_LEN values, and a step that changes a full buffer leaves it
\* full, with all its values but the oldest moved one place to the front.
C1_HistoryBounded ==
  /\ [](\A h \in DOMAIN history_store : \A k \in Metrics :
          Len(history_store[h][k]) <= HISTORY_LEN)
  /\ [][\A h \in DOMAIN history_store : \A k \in Metrics :
          LET old == history_store[h][k]
              new == history_store'[h][k]
          IN (new # old /\ Len(old) = HISTORY_LEN) =>
               /\ Len(new) = HISTORY_LEN
               /\ SubSeq(new, 1, HISTORY_LEN - 1) = Tail(old)]_vars

\* A host with one event more than the capacity: its cpu buffer is full and
\* no longer starts with the first sample.
C1_Witness ==
  \E h \in DOMAIN history_store :
    LET evs == EventsOf(h) IN
    /\ cur = <<>>
    /\ Len(evs) = HISTORY_LEN + 1
    /\ Len(history_store[h].cpu) = HISTORY_LEN
    /\ ExpectedSample("cpu", evs[1].m) # ExpectedSample("cpu", evs[2].m)
    /\ history_store[h].cpu[1] = ExpectedSample("cpu", evs[2].m)

\* C2: for every host and metric the buffer holds exactly the samples of the
\* last min(m, HISTORY_LEN) of the m record calls made for that host, oldest
\* first, whatever events of other hosts came in between; a host no record
\* call was made for has no sample.
C2_LastSamples ==
  \A h \in HostNames : \A k \in Metrics :
    IF h \in DOMAIN history_store
    THEN history_store[h][k] = LastN(Recorded(h, k), HISTORY_LEN)
    ELSE Recorded(h, k) = <<>>

\* More record calls for web1 than the capacity, with an event of another
\* host between them.
C2_Witness ==
  /\ cur = <<>>
  /\ Len(EventsOf("web1")) > HISTORY_LEN
  /\ \E i \in 2..(Len(log) - 1) : EventHost(log[i]) # "web1"
  /\ EventHost(log[1]) = "web1" /\ EventHost(log[Len(log)]) = "web1"
  /\ history_store["web1"].cpu # history_store["web1"].mem

\* The last event handled for host h, and its payload.
LastEvent(h) == EventsOf(h)[Len(EventsOf(h))]
LastPayload(h) == LastEvent(h).m

\* C3: the store maps exactly the hosts that reported, each to the whole
\* payload of the event handled last for it, with no key kept from an earlier
\* payload, also when that last event is the older sample.
C3_LastWriteWins ==
  /\ SeqToSet(DictKeys(metrics_store)) = {h \in HostNames : EventsOf(h) # <<>>}
  /\ \A h \in SeqToSet(DictKeys(metrics_store)) :
       /\ DictGet(metrics_store, h) = LastPayload(h)
       /\ DOMAIN DictGet(metrics_store, h) = DOMAIN LastPayload(h)
  /\ Len(metrics_store) = Cardinality(SeqToSet(DictKeys(metrics_store)))

\* web1 sent the newer, fuller SnapA first and the older SnapB after it: the
\* store holds SnapB and has no swap section for web1.
C3_Witness ==
  /\ DictHas(metrics_store, "web1")
  /\ DictGet(metrics_store, "web1") = SnapB
  /\ "swap" \notin DOMAIN DictGet(metrics_store, "web1")
  /\ \E i \in 1..Len(log) :
       /\ log[i].m = SnapA
       /\ log[i].m.uptime > DictGet(metrics_store, "web1").uptime

----------------------------------------------------------------------------
(* Panels and frames.                                                      *)

\* Line i of a panel of host h shows the payload of event e, whatever trend
\* it ends with.
LineFrom(i, line, e) ==
  CASE i = 1 -> line = CpuLine(e.m, line.spark)
    [] i = 2 -> line = MemLine(e.m, line.spark)
    [] i = 3 -> line = RestLines(e.m, line.spark)

\* Panel p shows, in all its sections, the payload of the one event e.
PanelFrom(p, e) ==
  /\ EventHost(e) = p.title
  /\ LineFrom(1, p.cpu, e) /\ LineFrom(2, p.mem, e) /\ LineFrom(3, p.rest, e)

FromOneEvent(p) == \E i \in 1..Len(log) : PanelFrom(p, log[i])

\* The frame a tick of update_display() would compose in this state.
RichFrame == render_dashboard(metrics_store, history_store)

\* C4: every panel of a frame, and every panel under construction in the tui
\* main thread while the worker thread handles events, shows in all its
\* sections (cpu, memory, swap, disk, net, uptime, processes) the payload of
\* one single event of its host.
C4_NoTornPanel ==
  /\ (frontend = "rich" /\ upd_st = "running" /\ metrics_store # <<>>) =>
       \A i \in 1..Len(RichFrame) : FromOneEvent(RichFrame[i])
  /\ (frontend = "tui" /\ rd.panels # Waiting) =>
       /\ \A i \in 1..Len(rd.panels) : FromOneEvent(rd.panels[i])
       /\ rd.lines # <<>> =>
            \E j \in 1..Len(log) :
              /\ EventHost(log[j]) = rd.keys[rd.i]
              /\ \A i \in 1..Len(rd.lines) : LineFrom(i, rd.lines[i], log[j])

\* tui: the panel of web1 was completed from SnapA after the worker thread
\* had replaced SnapA by SnapB in the store.
C4_Witness ==
  /\ frontend = "tui" /\ rd.pc = "push" /\ rd.panels # Waiting
  /\ \E i \in 1..Len(rd.panels) :
       /\ rd.panels[i].title = "web1"
       /\ PanelFrom(rd.panels[i], [g |-> "web", m |-> SnapA])
  /\ DictGet(metrics_store, "web1") = SnapB

StrictlyAscending(names) ==
  \A i \in 1..(Len(names) - 1) : StrLess(names[i], names[i + 1])

Titles(frame) == [i \in 1..Len(frame) |-> frame[i].title]

\* The stores with the items of ms in every insertion order.
Reorderings(ms) ==
  {[i \in 1..Len(ms) |-> ms[f[i]]] :
     f \in {g \in [1..Len(ms) -> 1..Len(ms)] :
              \A a, b \in 1..Len(ms) : a # b => g[a] # g[b]}}

\* C5: the frame composed from a non-empty store has its panels in strictly
\* ascending hostname order, one panel for each host of the store and none
\* else, and the same store content in any other insertion order composes
\* to the same frame; the tui composes its frame in that order as well.
C5_SortedPanels ==
  [](/\ metrics_store # <<>> =>
          LET frame == RichFrame IN
          /\ StrictlyAscending(Titles(frame))
          /\ Len(frame) = Len(metrics_store)
          /\ SeqToSet(Titles(frame)) = SeqToSet(DictKeys(metrics_store))
          /\ \A ms \in Reorderings(metrics_store) :
               render_dashboard(ms, history_store) = frame
     /\ (frontend = "tui" /\ rd.panels # Waiting) =>
          /\ StrictlyAscending(rd.keys)
          /\ Titles(rd.panels) = SubSeq(rd.keys, 1, Len(rd.panels))
          /\ rd.pc = "push" => Len(rd.panels) = Len(rd.keys))

\* web1 reported before db1, and the frame shows db1 first.
C5_Witness ==
  /\ Len(metrics_store) >= 3
  /\ metrics_store[1].k = "web1"
  /\ \E i \in 2..Len(metrics_store) : metrics_store[i].k = "db1"
  /\ RichFrame[1].title # "web1"
  /\ \E i \in 1..(Len(RichFrame) - 1) :
       RichFrame[i].title = "db1" /\ RichFrame[i + 1].title = "web"

\* C6: once listen has been called, every group that is monitored has its
\* handler registered, and no event was dispatched to a group without one.
C6_SubscribedBeforeListen ==
  /\ listen_st # "idle" =>
       /\ monitored \subseteq DOMAIN handlers
       /\ SeqToSet(groups) \subseteq DOMAIN handlers
       /\ monitored # {}
  /\ ~dropped

\* Listening on two groups, with events of both handled.
C6_Witness ==
  /\ listen_st = "listening"
  /\ monitored = {"web", "db"}
  /\ \E i, j \in 1..Len(log) : log[i].g = "web" /\ log[j].g = "db"

----------------------------------------------------------------------------
(* The handler, step by step.                                              *)

\* Store ms2 is store ms1 with payload m put under host, nothing else moved.
PutOnly(ms1, ms2, host, m) ==
  /\ DictHas(ms2, host) /\ DictGet(ms2, host) = m
  /\ \A h \in HostNames \ {host} :
       /\ DictHas(ms2, h) = DictHas(ms1, h)
       /\ DictHas(ms1, h) => DictGet(ms2, h) = DictGet(ms1, h)

\* Buffer new is buffer old (none yet: empty) after one append of the sample
\* of metric k in payload m.
OneSample(old, new, k, m) ==
  new = LastN(Append(old, ExpectedSample(k, m)), HISTORY_LEN)

\* History hs2 is hs1 but for the metrics ks of host, which got one sample
\* of payload m each.
RecordedOnly(hs1, hs2, host, ks, m) ==
  /\ DOMAIN hs2 = DOMAIN hs1 \cup {host}
  /\ \A h \in DOMAIN hs1 \ {host} : hs2[h] = hs1[h]
  /\ \A k \in Metrics :
       LET old == IF host \in DOMAIN hs1 THEN hs1[host][k] ELSE <<>> IN
       IF k \in ks THEN OneSample(old, hs2[host][k], k, m)
       ELSE hs2[host][k] = old

\* C7: a step that handles an event puts its payload under the payload's
\* hostname, or without one under the group the event was received for, and
\* moves no other host's entry; one sample of the payload is appended to
\* each of that host's four buffers and to no other buffer, in the same step
\* (rich, debug) or in the following steps of the handler, the store already
\* written (tui); no other step changes the store or the history.
C7_HandlerEffect ==
  [][LET e == log'[Len(log')]
         c == log[Len(log)]
     IN
     /\ log' # log =>
          /\ log' = Append(log, e)
          /\ PutOnly(metrics_store, metrics_store', EventHost(e), e.m)
          /\ IF frontend = "tui"
             THEN history_store' = history_store
             ELSE RecordedOnly(history_store, history_store', EventHost(e),
                               Metrics, e.m)
     /\ (log' = log /\ cur' # cur) =>
          /\ metrics_store' = metrics_store
          /\ DictGet(metrics_store, EventHost(c)) = c.m
          /\ RecordedOnly(history_store, history_store', EventHost(c),
                          Metrics \cap {cur[1].step}, c.m)
     /\ (log' = log /\ cur' = cur) =>
          UNCHANGED <<metrics_store, history_store>>
    ]_vars

\* Two groups, web registered first: an event without hostname received for
\* web is stored and recorded under web, and db has no entry.
C7_Witness ==
  /\ groups = <<"web", "db">> /\ cur = <<>>
  /\ log # <<>> /\ log[Len(log)] = [g |-> "web", m |-> SnapD]
  /\ DictGet(metrics_store, "web") = SnapD
  /\ history_store["web"].mem = <<SnapD.memory.percent>>
  /\ ~DictHas(metrics_store, "db")

\* The panel of host h in a frame, <<>> when the frame has none.
PanelsOf(frame, h) == SelectSeq(frame, LAMBDA p : p.title = h)

\* C8: the store starts empty; no step removes a host from it, and a step
\* that handles no event of a host leaves the host's payload as it is; every
\* frame composed once a host has reported has one panel for the host, which
\* shows the payload of the last event handled for it; the tui starts each
\* redraw with all hosts of the store and fetches for each panel the payload
\* the store holds for the host.
C8_HostsPersist ==
  /\ metrics_store = <<>>
  /\ [](\A h \in HostNames : EventsOf(h) # <<>> =>
          /\ DictHas(metrics_store, h)
          /\ Len(PanelsOf(RichFrame, h)) = 1
          /\ PanelFrom(PanelsOf(RichFrame, h)[1], LastEvent(h)))
  /\ [][/\ \A h \in HostNames : DictHas(metrics_store, h) =>
             /\ DictHas(metrics_store', h)
             /\ (log' = log \/ EventHost(log'[Len(log')]) # h) =>
                  DictGet(metrics_store', h) = DictGet(metrics_store, h)
        /\ (rd.pc = "idle" /\ rd'.pc = "fetch") =>
             SeqToSet(rd'.keys) = SeqToSet(DictKeys(metrics_store))
        /\ (rd.pc = "fetch" /\ rd'.pc = "cpu") =>
             rd'.m = LastPayload(rd.keys[rd.i])
       ]_vars

\* web1 reported once, SnapA, before three events of other hosts: the frame
\* still has the panel of web1 with SnapA.
C8_Witness ==
  /\ Len(log) >= 4 /\ log[1].m = SnapA
  /\ Len(EventsOf("web1")) = 1
  /\ Len(metrics_store) >= 3
  /\ \E i \in 1..Len(RichFrame) :
       PanelFrom(RichFrame[i], [g |-> "web", m |-> SnapA])

----------------------------------------------------------------------------
(* The end of a run.                                                       *)

\* C9: in every front end, whenever listen has raised, the process
\* eventually ends, so that no redraw goes on for ever over the dead
\* ingestion.
C9_FailureTerminates == (listen_st = "failed") ~> (exit # <<>>)

\* C10: after SIGINT during the loops no tick pushes a frame to a display
\* surface that was torn down, and eventually listen and update_display()
\* have stopped, the surface is down if it was up, and the process has
\* ended with exit code 0.
C10_InterruptStops ==
  /\ [](intr \in {"listen", "gather"} => ~late_push)
  /\ (intr \in {"listen", "gather"}) ~>
       /\ exit = <<0>>
       /\ listen_st # "listening"
       /\ upd_st # "running"
       /\ surface # "up"

\* rich: interrupted in gather with events on display; both children were
\* cancelled, Live was left and the process ended with 0.
C10_Witness ==
  /\ frontend = "rich" /\ intr = "gather" /\ log # <<>>
  /\ listen_st = "cancelled" /\ upd_st = "cancelled"
  /\ surface = "down" /\ exit = <<0>> /\ ~late_push

----------------------------------------------------------------------------
(* Startup without groups.                                                 *)

NoGroupsMsg == "No groups found in inventory"
MissingMsg  == "Error: not found in inventory"

CountOf(seq, x) == Cardinality({i \in 1..Len(seq) : seq[i] = x})

\* None requested and none in the inventory.
NoGroups == arg_groups = <<>> /\ inventory = <<>>

\* rich or debug, with a requested group the inventory does not have.
MissingGroup ==
  /\ frontend # "tui"
  /\ \E i \in 1..Len(arg_groups) : arg_groups[i] \notin SeqToSet(inventory)

\* No monitor request, no subscription, no listen call, no redraw tick.
LoopsNotEntered ==
  /\ monitored = {} /\ handlers = EmptyDict
  /\ listen_st = "idle" /\ upd_st = "idle"
  /\ rd.pc = "idle"

\* C11: without any group, in every front end, and in rich and debug with a
\* requested group that the inventory lacks, the loops are never entered,
\* the error is reported at most once, and eventually the process has
\* ended with the error reported exactly once.
C11_NoGroupsExit ==
  /\ [](NoGroups \/ MissingGroup =>
          /\ LoopsNotEntered
          /\ CountOf(console, NoGroupsMsg) + CountOf(console, MissingMsg) <= 1)
  /\ NoGroups ~>
       /\ exit = <<0>>
       /\ IF frontend = "tui" THEN status_bar = NoGroupsMsg
          ELSE CountOf(console, NoGroupsMsg) = 1
  /\ MissingGroup ~> (exit = <<0>> /\ CountOf(console, MissingMsg) = 1)

----------------------------------------------------------------------------
(* The composed frame.                                                     *)

IsPlaceholder(x) == DOMAIN x = {"placeholder"}
IsHostPanel(x) == "title" \in DOMAIN x /\ "placeholder" \notin DOMAIN x

\* C12: an empty store composes to the placeholder alone, which is the case
\* exactly until the first event is handled; a store of k >= 1 hosts
\* composes to k host panels without placeholder; a store that has a host
\* never becomes empty again, and a tui redraw starts with the placeholder
\* only on an empty store.
C12_Placeholder ==
  /\ [](/\ metrics_store = <<>> <=> log = <<>>
        /\ IF metrics_store = <<>>
           THEN Len(RichFrame) = 1 /\ IsPlaceholder(RichFrame[1])
           ELSE /\ Len(RichFrame) = Len(metrics_store)
                /\ \A i \in 1..Len(RichFrame) : IsHostPanel(RichFrame[i])
        /\ (frontend = "tui" /\ rd.pc = "push") =>
             \/ Len(rd.panels) = 1 /\ IsPlaceholder(rd.panels[1])
             \/ /\ Len(rd.panels) = Len(rd.keys) /\ rd.keys # <<>>
                /\ \A i \in 1..Len(rd.panels) : IsHostPanel(rd.panels[i]))
  /\ [][/\ metrics_store # <<>> => metrics_store' # <<>>
        /\ (rd.pc = "idle" /\ rd'.pc # "idle") =>
             IF metrics_store = <<>>
             THEN rd'.pc = "push" /\ IsPlaceholder(rd'.panels[1])
             ELSE rd'.pc = "fetch" /\ Len(rd'.keys) = Len(metrics_store)
       ]_vars

\* tui: a frame of two host panels is ready to be pushed.
C12_Witness ==
  /\ frontend = "tui" /\ rd.pc = "push"
  /\ Len(rd.panels) = 2 /\ Len(metrics_store) = 2
  /\ \A i \in 1..2 : IsHostPanel(rd.panels[i])

----------------------------------------------------------------------------
(* Who writes.                                                             *)

\* A step of the redraw side: a statement of the tui redraw, or a tick of
\* update_display() (seen when it pushes to a surface that is gone).
RedrawMoves == rd'.pc # rd.pc \/ late_push' # late_push

\* C14: no step of a redraw changes the store or the history; fetching a
\* host that is in the store without a history entry creates no entry and
\* gives empty trends; every step that changes the store or the history is a
\* step of the event handler.
C14_RedrawReadOnly ==
  /\ []((frontend = "tui" /\ rd.pc \in {"cpu", "mem", "net_recv"}
         /\ ~rd.has_h) =>
          /\ rd.iter = "none"
          /\ \A i \in 1..Len(rd.lines) : rd.lines[i].spark = <<>>)
  /\ [][/\ RedrawMoves => UNCHANGED <<metrics_store, history_store>>
        /\ (rd.pc = "fetch" /\ rd'.pc = "cpu"
            /\ rd.keys[rd.i] \notin DOMAIN history_store) =>
             /\ DOMAIN history_store' = DOMAIN history_store
             /\ ~rd'.has_h
        /\ (metrics_store' # metrics_store \/ history_store' # history_store)
             => (~RedrawMoves /\ (log' # log \/ cur' # cur))
       ]_vars

\* tui: the redraw is past the cpu line of a host that the handler has put
\* into the store and not yet recorded; the host still has no history entry.
C14_Witness ==
  /\ frontend = "tui" /\ rd.pc = "mem" /\ ~rd.has_h
  /\ DictHas(metrics_store, rd.keys[rd.i])
  /\ rd.keys[rd.i] \notin DOMAIN history_store
  /\ rd.lines[1].spark = <<>>

----------------------------------------------------------------------------
(* The two loops side by side.                                             *)

\* rich: update_display() can tick whatever listen() is doing.
TickNeverBlocked ==
  [](frontend = "rich" /\ upd_st = "running" /\ Running => ENABLED RichTick)

\* tui: frames keep being composed for as long as the process runs.
FramesKeepComing ==
  []<>(frontend = "tui" => rd.pc = "push" \/ exit # <<>>)

\* An event whose handler has started is stored and recorded in full, unless
\* the process ends first.
HandlerCompletes == (cur # <<>>) ~> (cur = <<>> \/ exit # <<>>)

\* The process does not fail in the middle of the handler of an event that
\* was delivered while the redraw side was asleep.
HandlerNotCutOff == []((cur # <<>> /\ cur[1].asleep) => exit # <<1>>)

\* A redraw that starts after an event was handled shows its snapshot.
NextTickShows ==
  /\ [](frontend = "rich" /\ upd_st = "running" =>
          \A h \in HostNames : EventsOf(h) # <<>> =>
            \E i \in 1..Len(RichFrame) : PanelFrom(RichFrame[i], LastEvent(h)))
  /\ [][(rd.pc = "fetch" /\ rd'.pc = "cpu") =>
          rd'.m = LastPayload(rd.keys[rd.i])]_vars

\* C15: neither loop blocks the other: redraw ticks keep occurring for as
\* long as the process runs, whatever listen does; every event whose handling
\* has begun is eventually stored and recorded unless the process ends, and
\* no failure of the process cuts off the handler of an event delivered
\* while the redraw side slept; the redraw that follows shows the event's
\* snapshot.
C15_NeitherBlocks ==
  /\ TickNeverBlocked
  /\ FramesKeepComing
  /\ HandlerCompletes
  /\ HandlerNotCutOff
  /\ NextTickShows

----------------------------------------------------------------------------
(* Absent sections.                                                        *)

Last(q) == q[Len(q)]

ZeroUsage == [percent |-> 0, used |-> 0, total |-> 0]

\* Payload m has section sec with field fld.
HasField(m, sec, fld) == sec \in DOMAIN m /\ fld \in DOMAIN m[sec]

\* The newest samples of host h are those of its last event, 0 for every
\* field the event lacks, and all four buffers have grown alike.
AbsentRecordedAsZero(h) ==
  LET m == LastPayload(h)
      b == history_store[h]
  IN /\ Len(b.cpu) = Len(b.mem) /\ Len(b.mem) = Len(b.net_send)
     /\ Len(b.net_send) = Len(b.net_recv) /\ Len(b.cpu) >= 1
     /\ ~HasField(m, "cpu", "percent_total") => Last(b.cpu) = 0
     /\ ~HasField(m, "memory", "percent") => Last(b.mem) = 0
     /\ ~HasField(m, "net", "bytes_sent_rate") => Last(b.net_send) = 0
     /\ ~HasField(m, "net", "bytes_recv_rate") => Last(b.net_recv) = 0

\* The panel p of payload m shows zeros and an empty table for what m lacks.
AbsentShownAsZero(p, m) ==
  /\ ~HasField(m, "cpu", "percent_total") => p.cpu.cpu_total = 0
  /\ "memory" \notin DOMAIN m => p.mem.mem = ZeroUsage
  /\ "swap" \notin DOMAIN m => p.rest.swap = ZeroUsage
  /\ "disk" \notin DOMAIN m => p.rest.disk = ZeroUsage
  /\ ~HasField(m, "net", "bytes_sent_rate") => p.rest.net_sent = 0
  /\ ~HasField(m, "net", "bytes_recv_rate") => p.rest.net_recv = 0
  /\ "processes" \notin DOMAIN m => p.rest.procs = <<>>

Payloads == UNION {GroupEvents[g] : g \in DOMAIN GroupEvents}

\* C16: once an event is recorded, each of the four buffers of its host has
\* one more sample, which is 0 for a field the payload lacks; the panel of a
\* payload shows zeros and an empty process table for the sections the
\* payload lacks; a host without history is rendered with empty trends.
C16_AbsentSections ==
  [](/\ \A h \in DOMAIN history_store :
          (EventsOf(h) # <<>> /\ \A k \in Metrics : ~AppendPending(h, k)) =>
            AbsentRecordedAsZero(h)
     /\ metrics_store # <<>> =>
          LET frame == RichFrame IN
          \A i \in 1..Len(frame) :
            AbsentShownAsZero(frame[i], LastPayload(frame[i].title))
     /\ (frontend = "tui" /\ rd.panels # Waiting) =>
          \A i \in 1..Len(rd.panels) :
            \E j \in 1..Len(log) :
              /\ PanelFrom(rd.panels[i], log[j])
              /\ AbsentShownAsZero(rd.panels[i], log[j].m)
     /\ \A m \in Payloads :
          LET p == render_host("h", m, EmptyDict) IN
          /\ p.cpu.spark = <<>> /\ p.mem.spark = <<>> /\ p.rest.spark = <<>>
          /\ AbsentShownAsZero(p, m))

\* db1 sent SnapC, which has no memory, swap or processes section and no
\* bytes_sent_rate: 0 was recorded for mem and net_send next to the cpu and
\* net_recv samples, and the panel shows zero bars and no process.
C16_Witness ==
  /\ cur = <<>> /\ DictHas(metrics_store, "db1")
  /\ history_store["db1"].mem = <<0>>
  /\ history_store["db1"].net_send = <<0>>
  /\ history_store["db1"].cpu = <<SnapC.cpu.percent_total>>
  /\ history_store["db1"].net_recv = <<SnapC.net.bytes_recv_rate>>
  /\ \E i \in 1..Len(RichFrame) :
       /\ RichFrame[i].title = "db1"
       /\ RichFrame[i].mem.mem = ZeroUsage /\ RichFrame[i].rest.procs = <<>>

----------------------------------------------------------------------------
(* Bars and uptime text.                                                   *)

\* The call of fn whose result the state holds.
Called(fn) == call # <<>> /\ call[1].fn = fn

\* The number of cells of a bar that show glyph ch.
CountCells(bar, ch) == Cardinality({i \in 1..Len(bar) : bar[i].ch = ch})

\* C17: for every percent p in 0..100 and every width W, the number of
\* filled cells of the bar of _cpu_bar and of _mem_bar is floor(p/100*W),
\* the number of empty cells is W minus that, and the two sum to W.
C17_BarFill ==
  (Called("_cpu_bar") \/ Called("_mem_bar")) /\ call[1].percent <= 100 =>
    LET p   == call[1].percent
        W   == call[1].width
        bar == call[1].out
    IN  /\ CountCells(bar, "full") = (p * W) \div 100
        /\ CountCells(bar, "light") = W - ((p * W) \div 100)
        /\ Len(bar) = W

\* C18: _fmt_uptime gives days, hours and minutes when there is a whole
\* day, hours and minutes when there is a whole hour and no day, and the
\* minutes alone otherwise, with hours below 24 and minutes below 60.
C18_UptimeForm ==
  Called("_fmt_uptime") =>
    LET s   == call[1].seconds
        d   == s \div 86400
        h   == (s % 86400) \div 3600
        m   == (s % 3600) \div 60
        out == call[1].out
    IN  /\ d > 0 => out = <<Part(d, "d"), Part(h, "h"), Part(m, "m")>>
        /\ d = 0 /\ h > 0 => out = <<Part(h, "h"), Part(m, "m")>>
        /\ d = 0 /\ h = 0 => out = <<Part(m, "m")>>
        /\ 0 <= h /\ h < 24 /\ 0 <= m /\ m < 60
        /\ s = 65 => out = <<Part(1, "m")>>
        /\ s = 3661 => out = <<Part(1, "h"), Part(1, "m")>>
        /\ s = 90061 => out = <<Part(1, "d"), Part(1, "h"), Part(1, "m")>>

\* An exact day shows as 1d 0h 0m.
C18_Witness ==
  /\ Called("_fmt_uptime") /\ call[1].seconds = 86400
  /\ call[1].out = <<Part(1, "d"), Part(0, "h"), Part(0, "m")>>

\* The styles of the filled cells of a bar.
FillStyles(bar) == {bar[i].style : i \in {j \in 1..Len(bar) : bar[j].ch = "full"}}

\* C19: the colour of a bar follows strict thresholds: a cpu bar is red
\* above 80, yellow above 50 and up to 80, green up to 50; a memory, swap
\* or disk bar is red above 80, yellow above 60 and up to 80, cyan up to
\* 60; every filled cell of a bar has that one colour.
C19_StrictThresholds ==
  /\ Called("_cpu_bar") /\ FillStyles(call[1].out) # {} =>
       LET p == call[1].percent IN
       FillStyles(call[1].out) =
         {IF p > 80 THEN "red"
          ELSE IF 50 < p /\ p <= 80 THEN "yellow"
          ELSE "green"}
  /\ Called("_mem_bar") /\ FillStyles(call[1].out) # {} =>
       LET p == call[1].percent IN
       FillStyles(call[1].out) =
         {IF p > 80 THEN "red"
          ELSE IF 60 < p /\ p <= 80 THEN "yellow"
          ELSE "cyan"}

\* A cpu bar at exactly 80 percent is drawn in the warning colour.
C19_Witness ==
  /\ Called("_cpu_bar") /\ call[1].percent = 80 /\ call[1].width = 20
  /\ FillStyles(call[1].out) = {"yellow"}

----------------------------------------------------------------------------
(* Store and history between two handlers.                                 *)

\* C20: whenever no handler is in progress, the history holds exactly the
\* hosts of the store, each with exactly the four buffers cpu, mem, net_send
\* and net_recv, all four of the length min(HISTORY_LEN, number of events
\* handled for that host).
C20_StoresAgree ==
  cur = <<>> =>
    /\ DOMAIN history_store = SeqToSet(DictKeys(metrics_store))
    /\ \A h \in DOMAIN history_store :
         /\ DOMAIN history_store[h] = {"cpu", "mem", "net_send", "net_recv"}
         /\ \A k \in DOMAIN history_store[h] :
              Len(history_store[h][k]) = Min2(HISTORY_LEN, Len(EventsOf(h)))

\* Between two handlers: one host with more events than the capacity, its
\* four buffers full, and another host with a single event.
C20_Witness ==
  /\ cur = <<>> /\ log # <<>>
  /\ \E h1, h2 \in DOMAIN history_store :
       /\ Len(EventsOf(h1)) > HISTORY_LEN
       /\ \A k \in Metrics : Len(history_store[h1][k]) = HISTORY_LEN
       /\ Len(EventsOf(h2)) = 1
       /\ \A k \in Metrics : Len(history_store[h2][k]) = 1

----------------------------------------------------------------------------
(* Store and history as one redraw reads them.                             *)

\* The newest sample of metric k recorded for host h is the one of payload m.
NewestIs(h, k, m) ==
  /\ h \in DOMAIN history_store
  /\ history_store[h][k] # <<>>
  /\ Last(history_store[h][k]) = MetricSample(k, m)

\* rich and debug: a tick composes the whole frame in one step of the event
\* loop, so it reads the store and the history of this state.
TickSeesOneEvent ==
  [](frontend # "tui" =>
       \A i \in 1..Len(metrics_store) :
         /\ NewestIs(metrics_store[i].k, "cpu", metrics_store[i].v)
         /\ NewestIs(metrics_store[i].k, "mem", metrics_store[i].v))

\* tui: the redraw finds a history entry for the host whose payload it
\* fetches, and when it draws the cpu and the mem trend the newest sample
\* of the deque is the one of the payload it fetched.
RefreshSeesOneEvent ==
  [][/\ (rd.pc = "fetch" /\ rd'.pc = "cpu") => rd'.has_h
     /\ (rd.pc = "cpu" /\ rd'.pc = "mem") =>
          NewestIs(rd.keys[rd.i], "cpu", rd.m)
     /\ (rd.pc = "mem" /\ rd'.pc = "net_recv") =>
          NewestIs(rd.keys[rd.i], "mem", rd.m)]_vars

\* C21: every redraw sees the store and the history of a host at the same
\* event: the host it renders has a history entry whose newest cpu and mem
\* samples are those of the snapshot the redraw took from the store, in
\* rich and debug and in the tui, however the handler's statements and the
\* redraw interleave.
C21_RedrawSeesOneEvent == TickSeesOneEvent /\ RefreshSeesOneEvent

====
